---- MODULE Spec2Model ----
(***************************************************************************)
(* Model of the currencies application of valedger:                        *)
(*   - Currency.save / Currency.delete (the single-base-currency registry) *)
(*   - the post_save / post_delete receivers that maintain the reciprocal  *)
(*     conversion rate                                                     *)
(*   - Currency.convert_to (latest-rate graph build and breadth-first      *)
(*     search)                                                             *)
(* The store is the Django ORM in its default autocommit mode: every       *)
(* QuerySet.update, Model.save and Model.delete is committed on its own.   *)
(***************************************************************************)
EXTENDS Integers, Sequences, FiniteSets, TLC

VARIABLES
    currencies,   \* Currency table: pk -> is_base_currency of the stored row
    handles,      \* Currency instances held by the caller: pk -> the instance's is_base_currency
    nextCurPk,    \* next AutoField value of the Currency table
    rates,        \* ConversionFactor table: set of rows [pk, from, to, date, factor]
    nextRatePk,   \* next AutoField value of the ConversionFactor table
    calls,        \* rate mutations the caller has made so far
    last,         \* the most recent call and what it returned or raised
    running       \* calls in progress: thread -> its position and local variables

vars == <<currencies, handles, nextCurPk, rates, nextRatePk, calls, last, running>>

(***************************************************************************)
(* Bounds of the model.                                                    *)
(***************************************************************************)
MaxCurPk == 4        \* Currency rows ever inserted in the registry runs
NumCur == 3          \* Currency rows present in the rate and conversion runs
MaxDate == 2         \* dates 1..MaxDate
MaxRateCalls == 3    \* rate mutations per run of the reciprocal-maintenance specification
MaxConvertCalls == 2 \* rate mutations per run of the conversion specification
MaxChain == 4        \* nested receiver invocations before the interpreter's recursion limit

NoCall == [op |-> "none"]

\* No call is in progress: every call of the caller runs to its end
NoThreads == <<>>

(***************************************************************************)
(* Currency.save and Currency.delete                                       *)
(***************************************************************************)
CurPks == DOMAIN currencies

\* A save as base that leaves the other rows alone
DemoteNone(db, pk) == db

\* Currency.objects.exclude(pk=self.pk).update(is_base_currency=False)
DemoteOthers(db, pk) == [p \in DOMAIN db |-> IF p = pk THEN db[p] ELSE FALSE]

\* Currency.objects.exclude(pk=self.pk).filter(is_base_currency=True).exists()
OtherBaseExists(db, pk) == \E p \in DOMAIN db : p # pk /\ db[p]

\* super().save(): UPDATE of the row pk, or INSERT when there is none
WriteRow(db, pk, b) == [p \in (DOMAIN db) \cup {pk} |-> IF p = pk THEN b ELSE db[p]]

\* A save that stores the flag the caller set, whatever the other rows say
SaveFlagAsGiven(db, pk, b) == b

\* The is_base_currency the instance ends with in Currency.save
SaveFlag(db, pk, b) == IF b THEN TRUE ELSE ~OtherBaseExists(db, pk)

\* Currency.save on an instance (pk, is_base_currency = b): the table afterwards
CurrencySaveDb(db, pk, b) ==
    IF b THEN WriteRow(DemoteOthers(db, pk), pk, TRUE)
         ELSE WriteRow(db, pk, SaveFlag(db, pk, b))

\* other_currencies.first(): an unordered queryset is ordered by pk
FirstOther(db, pk) == CHOOSE p \in DOMAIN db \ {pk} : \A q \in DOMAIN db \ {pk} : p <= q

\* Currency.delete on an instance (pk, is_base_currency = b): the table afterwards
CurrencyDeleteDb(db, pk, b) ==
    LET promoted == IF b /\ DOMAIN db \ {pk} # {}
                       THEN CurrencySaveDb(db, FirstOther(db, pk), TRUE)
                       ELSE db
    IN  [p \in DOMAIN promoted \ {pk} |-> promoted[p]]

\* Currency.objects.create(..., is_base_currency=b): a new instance, saved
CurrencyCreate(b) ==
    /\ nextCurPk <= MaxCurPk
    /\ currencies' = CurrencySaveDb(currencies, nextCurPk, b)
    /\ handles' = [p \in (DOMAIN handles) \cup {nextCurPk} |->
                      IF p = nextCurPk THEN SaveFlag(currencies, nextCurPk, b) ELSE handles[p]]
    /\ nextCurPk' = nextCurPk + 1
    /\ last' = [op |-> "currency_save", pk |-> nextCurPk, flag |-> b]
    /\ UNCHANGED <<rates, nextRatePk, calls, running>>

\* instance.is_base_currency = b; instance.save() through a held instance
CurrencySave(pk, b) ==
    /\ pk \in DOMAIN handles
    /\ currencies' = CurrencySaveDb(currencies, pk, b)
    /\ handles' = [handles EXCEPT ![pk] = SaveFlag(currencies, pk, b)]
    /\ last' = [op |-> "currency_save", pk |-> pk, flag |-> b]
    /\ UNCHANGED <<nextCurPk, rates, nextRatePk, calls, running>>

\* instance.delete() through a held instance; the instance's own
\* is_base_currency decides whether another currency is promoted
CurrencyDelete(pk) ==
    /\ pk \in DOMAIN handles
    /\ currencies' = CurrencyDeleteDb(currencies, pk, handles[pk])
    /\ handles' = [p \in DOMAIN handles \ {pk} |-> handles[p]]
    /\ last' = [op |-> "currency_delete", pk |-> pk, flag |-> handles[pk]]
    /\ UNCHANGED <<nextCurPk, rates, nextRatePk, calls, running>>

\* Currency.objects.get(pk=pk): the caller replaces its instance by a fresh one
CurrencyLoad(pk) ==
    /\ pk \in DOMAIN handles
    /\ handles[pk] # currencies[pk]
    /\ handles' = [handles EXCEPT ![pk] = currencies[pk]]
    /\ last' = [op |-> "currency_load", pk |-> pk, flag |-> currencies[pk]]
    /\ UNCHANGED <<currencies, nextCurPk, rates, nextRatePk, calls, running>>

InitCurrency ==
    /\ currencies = <<>>
    /\ handles = <<>>
    /\ nextCurPk = 1
    /\ rates = {}
    /\ nextRatePk = 1
    /\ calls = 0
    /\ last = NoCall
    /\ running = NoThreads

NextCurrency ==
    \/ \E b \in BOOLEAN : CurrencyCreate(b)
    \/ \E pk \in 1..MaxCurPk, b \in BOOLEAN : CurrencySave(pk, b)
    \/ \E pk \in 1..MaxCurPk : CurrencyDelete(pk)
    \/ \E pk \in 1..MaxCurPk : CurrencyLoad(pk)

SpecCurrency == InitCurrency /\ [][NextCurrency]_vars

(***************************************************************************)
(* C1: after every Currency.save and Currency.delete, exactly one stored   *)
(* currency is the base currency whenever at least one currency is stored. *)
(***************************************************************************)
BaseCount == Cardinality({p \in DOMAIN currencies : currencies[p]})

C1_BaseInvariant == (DOMAIN currencies # {}) => BaseCount = 1

(***************************************************************************)
(* Decimal arithmetic.  A Decimal held in memory is an exact fraction      *)
(* num/den (the interpreter's 28 significant digits are far finer than the *)
(* 4 fractional digits any comparison or write below observes); a stored   *)
(* factor is an integer count of 1/Scale units.                            *)
(***************************************************************************)
Scale == 10000       \* decimal_places = 4

RECURSIVE GCD(_, _)
GCD(a, b) == IF b = 0 THEN a ELSE GCD(b, a % b)

Rat(p, q) == LET g == GCD(p, q) IN [num |-> p \div g, den |-> q \div g]

RatOne == Rat(1, 1)      \* Decimal("1.0")
RatZero == Rat(0, 1)     \* Decimal("0.0")

\* The Decimal read from a stored factor of n units
FromUnits(n) == Rat(n, Scale)

\* Decimal("1.0") / x, for x # 0
RatRecip(x) == [num |-> x.den, den |-> x.num]

RatMul(x, y) == Rat(x.num * y.num, x.den * y.den)

\* DecimalField(max_digits=10, decimal_places=4) preparing a value for the
\* database (a write or a lookup): quantize to 4 places, ROUND_HALF_EVEN
Quantize(x) ==
    LET n == x.num * Scale
        q == n \div x.den
        r == n % x.den
    IN  IF 2 * r > x.den THEN q + 1
        ELSE IF 2 * r < x.den THEN q
        ELSE IF q % 2 = 0 THEN q ELSE q + 1

(***************************************************************************)
(* The conversion-rate table and the receivers of signals.py.  The model   *)
(* class is named ConversionFactor in models.py and ConversionRate in      *)
(* signals.py and tests.py; it is one table, unique on                     *)
(* (from_currency, to_currency, date).                                     *)
(***************************************************************************)
Currencies == 1..NumCur
Dates == 1..MaxDate

\* Factors a caller assigns in the reciprocal-maintenance runs, in 1/Scale
\* units: 0, 0.6 (reciprocal 1.6667, rounded up) and 30000.0 (reciprocal
\* 0.0000, rounded down to zero)
RateFactors == {0, 6000, 300000000}

Row(pk, a, b, d, n) ==
    [pk |-> pk, from_currency |-> a, to_currency |-> b, date |-> d, factor |-> n]

\* An instance in memory: its factor is the Decimal it was assigned
Instance(a, b, d, x) ==
    [from_currency |-> a, to_currency |-> b, date |-> d, factor |-> x]

\* objects.filter(from_currency=a, to_currency=b, date=d)
RowsAt(store, a, b, d) ==
    {r \in store : r.from_currency = a /\ r.to_currency = b /\ r.date = d}

\* A reverse factor without the zero case of the receiver: 0 is answered by 1
ReverseFactorZeroAsOne(x) == IF x = RatZero THEN RatOne ELSE RatRecip(x)

\* signals.py: reverse_factor
ReverseFactor(x) == IF x = RatZero THEN RatZero ELSE RatRecip(x)

\* A lookup of the reverse row that leaves the factor out
ReverseExistsAnyFactor(store, inst) ==
    RowsAt(store, inst.to_currency, inst.from_currency, inst.date) # {}

\* signals.py: filter(from_currency=instance.to_currency,
\* to_currency=instance.from_currency, date=instance.date,
\* factor=reverse_factor).exists()
ReverseExists(store, inst) ==
    \E r \in RowsAt(store, inst.to_currency, inst.from_currency, inst.date) :
        r.factor = Quantize(ReverseFactor(inst.factor))

\* objects.update_or_create(from_currency=a, to_currency=b, date=d,
\* defaults={"factor": x}): the table and the next pk afterwards
UpdateOrCreate(store, npk, a, b, d, x) ==
    IF RowsAt(store, a, b, d) # {}
        THEN [rates |-> {IF r \in RowsAt(store, a, b, d)
                             THEN [r EXCEPT !.factor = Quantize(x)] ELSE r : r \in store},
              nextPk |-> npk]
        ELSE [rates |-> store \cup {Row(npk, a, b, d, Quantize(x))},
              nextPk |-> npk + 1]

\* The key of the reverse row of an instance
ReverseKey(inst) == <<inst.to_currency, inst.from_currency, inst.date>>

\* create_or_update_reverse_conversion_rate(instance) and every receiver
\* invocation its write triggers; depth counts the nested invocations, and
\* past MaxChain the interpreter raises RecursionError.  writes counts the
\* rows the receivers wrote, touched holds their keys.
RECURSIVE PostSave(_, _, _, _)
PostSave(store, npk, inst, depth) ==
    IF depth > MaxChain
        THEN [rates |-> store, nextPk |-> npk, writes |-> 0, overflow |-> TRUE,
              touched |-> {}]
    ELSE IF ReverseExists(store, inst)
        THEN [rates |-> store, nextPk |-> npk, writes |-> 0, overflow |-> FALSE,
              touched |-> {}]
    ELSE LET rf == ReverseFactor(inst.factor)
             u == UpdateOrCreate(store, npk, inst.to_currency, inst.from_currency,
                                 inst.date, rf)
             rest == PostSave(u.rates, u.nextPk,
                              Instance(inst.to_currency, inst.from_currency, inst.date, rf),
                              depth + 1)
         IN  [rates |-> rest.rates, nextPk |-> rest.nextPk,
              writes |-> 1 + rest.writes, overflow |-> rest.overflow,
              touched |-> {ReverseKey(inst)} \cup rest.touched]

\* The receiver chain of the caller's save.  update_or_create does its work
\* inside transaction.atomic, and every nested receiver runs inside that
\* block: a RecursionError that leaves it rolls back every write of the
\* chain, and the row the caller saved (committed before the signal) stays.
Receivers(store, npk, inst) ==
    LET post == PostSave(store, npk, inst, 1)
    IN  IF post.overflow THEN [post EXCEPT !.rates = store, !.nextPk = npk] ELSE post

\* A post_delete receiver that leaves the reverse row alone
PostDeleteKeepsReverse(store, inst, depth) ==
    [rates |-> store, writes |-> 0, overflow |-> FALSE, touched |-> {}]

\* delete_reverse_conversion_rate(instance) and every receiver invocation
\* its delete triggers
RECURSIVE PostDelete(_, _, _)
PostDelete(store, inst, depth) ==
    LET rev == RowsAt(store, inst.to_currency, inst.from_currency, inst.date)
    IN  IF depth > MaxChain
            THEN [rates |-> store, writes |-> 0, overflow |-> TRUE, touched |-> {}]
        ELSE IF rev = {}
            THEN [rates |-> store, writes |-> 0, overflow |-> FALSE, touched |-> {}]
        ELSE LET rest == PostDelete(store \ rev,
                                    Instance(inst.to_currency, inst.from_currency,
                                             inst.date, RatZero),
                                    depth + 1)
             IN  [rates |-> rest.rates, writes |-> 1 + rest.writes,
                  overflow |-> rest.overflow,
                  touched |-> {ReverseKey(inst)} \cup rest.touched]

Outcome(op, pk, a, b, d, n, err, writes, touched) ==
    [op |-> op, pk |-> pk, from_currency |-> a, to_currency |-> b, date |-> d,
     factor |-> n, error |-> err, writes |-> writes, touched |-> touched]

ChainError(overflow) == IF overflow THEN "RecursionError" ELSE "none"

\* ConversionRate.objects.create(from_currency=a, to_currency=b, factor=n, date=d)
RateCreate(a, b, d, n) ==
    /\ calls' = calls + 1
    /\ IF RowsAt(rates, a, b, d) # {}
          THEN /\ UNCHANGED <<rates, nextRatePk>>
               /\ last' = Outcome("rate_create", 0, a, b, d, n, "IntegrityError", 0, {})
          ELSE LET post == Receivers(rates \cup {Row(nextRatePk, a, b, d, n)},
                                     nextRatePk + 1, Instance(a, b, d, FromUnits(n)))
               IN  /\ rates' = post.rates
                   /\ nextRatePk' = post.nextPk
                   /\ last' = Outcome("rate_create", nextRatePk, a, b, d, n,
                                      ChainError(post.overflow), 1 + post.writes,
                                      post.touched)
    /\ UNCHANGED <<currencies, handles, nextCurPk, running>>

\* rate = ConversionRate.objects.get(pk=pk); the caller assigns the fields; rate.save()
RateSave(pk, a, b, d, n) ==
    \E row \in rates :
        /\ row.pk = pk
        /\ calls' = calls + 1
        /\ IF RowsAt(rates, a, b, d) \ {row} # {}
              THEN /\ UNCHANGED <<rates, nextRatePk>>
                   /\ last' = Outcome("rate_save", pk, a, b, d, n, "IntegrityError", 0, {})
              ELSE LET post == Receivers((rates \ {row}) \cup {Row(pk, a, b, d, n)},
                                         nextRatePk, Instance(a, b, d, FromUnits(n)))
                   IN  /\ rates' = post.rates
                       /\ nextRatePk' = post.nextPk
                       /\ last' = Outcome("rate_save", pk, a, b, d, n,
                                          ChainError(post.overflow), 1 + post.writes,
                                      post.touched)
        /\ UNCHANGED <<currencies, handles, nextCurPk, running>>

\* rate = ConversionRate.objects.get(pk=pk); rate.delete()
RateDelete(pk) ==
    \E row \in rates :
        /\ row.pk = pk
        /\ calls' = calls + 1
        /\ LET post == PostDelete(rates \ {row},
                                  Instance(row.from_currency, row.to_currency,
                                           row.date, FromUnits(row.factor)), 1)
           IN  /\ rates' = post.rates
               /\ last' = Outcome("rate_delete", pk, row.from_currency, row.to_currency,
                                  row.date, row.factor, ChainError(post.overflow),
                                  1 + post.writes, post.touched)
        /\ UNCHANGED <<currencies, handles, nextCurPk, nextRatePk, running>>

\* The state the rate tests start from: the currencies exist, the first
\* created is the base, no rate is stored
InitRate ==
    /\ currencies = [p \in Currencies |-> p = 1]
    /\ handles = [p \in Currencies |-> p = 1]
    /\ nextCurPk = NumCur + 1
    /\ rates = {}
    /\ nextRatePk = 1
    /\ calls = 0
    /\ last = NoCall
    /\ running = NoThreads

\* The caller's assignment before rate.save(): one field of the loaded row
\* changed, or none
OneField(row, a, b, d, n) ==
    Cardinality({f \in {"from_currency", "to_currency", "date", "factor"} :
                    Row(row.pk, a, b, d, n)[f] # row[f]}) <= 1

NextRate ==
    \/ \E a \in Currencies, b \in Currencies, d \in Dates, n \in RateFactors :
          calls < MaxRateCalls /\ RateCreate(a, b, d, n)
    \/ \E row \in rates, a \in Currencies, b \in Currencies, d \in Dates :
          \E n \in RateFactors \cup {row.factor} :
             calls < MaxRateCalls /\ OneField(row, a, b, d, n) /\ RateSave(row.pk, a, b, d, n)
    \/ \E row \in rates : calls < MaxRateCalls /\ RateDelete(row.pk)

SpecRate == InitRate /\ [][NextRate]_vars

(***************************************************************************)
(* C2: after every rate create, update and delete, every stored rate       *)
(* (A, B, date) has a stored rate (B, A, date).                            *)
(***************************************************************************)
C2_ReciprocalExists ==
    \A r \in rates : RowsAt(rates, r.to_currency, r.from_currency, r.date) # {}

IsSave(call) == call.op \in {"rate_create", "rate_save"}

\* The rows stored under the reversed key of row r
ReverseRows(store, r) == RowsAt(store, r.to_currency, r.from_currency, r.date)

\* g is 1/f rounded to the nearest 1/Scale unit (ties to the even unit),
\* and 0 for f = 0; f and g in 1/Scale units
IsRecipOf(g, f) ==
    IF f = 0 THEN g = 0
    ELSE /\ g <= (Scale * Scale) \div f + 1
         /\ LET diff == IF g * f >= Scale * Scale THEN g * f - Scale * Scale
                                                  ELSE Scale * Scale - g * f
            IN  /\ 2 * diff <= f
                /\ (2 * diff = f) => (g % 2 = 0)

C7_NoUpdateLoop ==
    IsSave(last) => (last.error # "RecursionError" /\ last.writes <= 2)

(***************************************************************************)
(* C6: saving (A, B, date, f), A # B, again with identical values, when    *)
(* (B, A, date) is stored with the reciprocal factor, raises nothing and   *)
(* leaves the (B, A, date) row as it was: same pk, same factor.            *)
(***************************************************************************)
C6_IdempotentResave ==
    [][\A r \in rates :
          ( /\ IsSave(last')
            /\ r.from_currency # r.to_currency
            /\ last'.from_currency = r.from_currency
            /\ last'.to_currency = r.to_currency
            /\ last'.date = r.date
            /\ last'.factor = r.factor
            /\ \E r2 \in ReverseRows(rates, r) :
                  r2.factor = Quantize(ReverseFactor(FromUnits(r.factor))) )
          => ( /\ last'.error = "none"
               /\ ReverseRows(rates', r) = ReverseRows(rates, r) )]_vars

(***************************************************************************)
(* Currency.convert_to                                                     *)
(***************************************************************************)
\* values("from_currency", "to_currency"): the ordered pairs with a row
StoredPairs(store) == {<<r.from_currency, r.to_currency>> : r \in store}

\* annotate(latest_date=Max("date")) of one pair
LatestDate(store, a, b) ==
    CHOOSE d \in {r.date : r \in {x \in store : x.from_currency = a /\ x.to_currency = b}} :
        \A r \in store : (r.from_currency = a /\ r.to_currency = b) => r.date <= d

\* objects.get(from_currency=a, to_currency=b, date=latest)
LatestRow(store, a, b) == CHOOSE r \in RowsAt(store, a, b, LatestDate(store, a, b)) : TRUE

PairKey(p) == p[1] * (NumCur + 1) + p[2]

RECURSIVE Ascending(_)
Ascending(S) ==
    IF S = {} THEN <<>>
    ELSE LET m == CHOOSE p \in S : \A q \in S : PairKey(p) <= PairKey(q)
         IN  <<m>> \o Ascending(S \ {m})

Reversed(s) == [i \in 1..Len(s) |-> s[Len(s) + 1 - i]]

\* The order in which the grouped query returns its entries is the
\* database's choice; the model draws it from the ascending and the
\* descending pair order
EnumerationOrders(store) ==
    {Ascending(StoredPairs(store)), Reversed(Ascending(StoredPairs(store)))}

EmptyGraph ==
    [graph |-> [c \in Currencies |-> <<>>], lookup |-> <<>>, error |-> "none"]

\* lookup[key] = value
Put(lookup, key, value) ==
    [k \in (DOMAIN lookup) \cup {key} |-> IF k = key THEN value ELSE lookup[k]]

\* One iteration of the loop over latest_dates: the edge, its factor, the
\* reverse edge and Decimal("1.0") / factor, which raises on a zero factor
AddEntry(g, store, pair) ==
    LET cf == LatestRow(store, pair[1], pair[2])
        a == cf.from_currency
        b == cf.to_currency
        g1 == [g.graph EXCEPT ![a] = Append(@, b)]
        g2 == [g1 EXCEPT ![b] = Append(@, a)]
        l1 == Put(g.lookup, <<a, b>>, FromUnits(cf.factor))
    IN  IF g.error # "none" THEN g
        ELSE IF cf.factor = 0
            THEN [graph |-> g2, lookup |-> l1, error |-> "DivisionByZero"]
            ELSE [graph |-> g2,
                  lookup |-> Put(l1, <<b, a>>, RatRecip(FromUnits(cf.factor))),
                  error |-> "none"]

RECURSIVE BuildGraph(_, _, _)
BuildGraph(g, store, order) ==
    IF order = <<>> THEN g
    ELSE BuildGraph(AddEntry(g, store, Head(order)), store, Tail(order))

\* queue.popleft()
PopLeft(queue) == [entry |-> Head(queue), rest |-> Tail(queue)]

\* A loop body that puts the dequeued entry back in the queue
ExpandRequeues(g, entry, neighbours, visited) == <<entry>>

\* A for loop that appends an entry for every neighbour, visited or not
RECURSIVE ExpandRevisits(_, _, _, _)
ExpandRevisits(g, entry, neighbours, visited) ==
    IF neighbours = <<>> THEN <<>>
    ELSE <<[current |-> Head(neighbours), path |-> Append(entry.path, Head(neighbours)),
            factor |-> RatMul(entry.factor, g.lookup[<<entry.current, Head(neighbours)>>])]>>
         \o ExpandRevisits(g, entry, Tail(neighbours), visited)

\* The entries the for loop appends for the neighbours not yet visited
RECURSIVE Expand(_, _, _, _)
Expand(g, entry, neighbours, visited) ==
    IF neighbours = <<>> THEN <<>>
    ELSE LET nb == Head(neighbours)
             more == Expand(g, entry, Tail(neighbours), visited)
         IN  IF nb \in visited THEN more
             ELSE <<[current |-> nb, path |-> Append(entry.path, nb),
                     factor |-> RatMul(entry.factor, g.lookup[<<entry.current, nb>>])]>>
                  \o more

\* The while loop: the entry that reaches the target, or found = FALSE
RECURSIVE Search(_, _, _, _)
Search(g, target, queue, visited) ==
    IF queue = <<>> THEN [found |-> FALSE, path |-> <<>>, factor |-> RatZero]
    ELSE LET p == PopLeft(queue)
             e == p.entry
         IN  IF e.current = target
                 THEN [found |-> TRUE, path |-> e.path, factor |-> e.factor]
                 ELSE Search(g, target,
                             p.rest \o Expand(g, e, g.graph[e.current],
                                              visited \cup {e.current}),
                             visited \cup {e.current})

Returned(src, code, amount, found, path, factor, result, err) ==
    [op |-> "convert", source |-> src, target |-> code, amount |-> amount,
     found |-> found, path |-> path, factor |-> factor, result |-> result,
     error |-> err]

\* A not-found error escaping instead of the sentinel
UnresolvedRaises(src, code, amount) ==
    Returned(src, code, amount, FALSE, <<>>, RatZero, RatZero, "DoesNotExist")

\* except Currency.DoesNotExist: return None, None, amount
Unresolved(src, code, amount) ==
    Returned(src, code, amount, FALSE, <<>>, RatZero, Rat(amount, 1), "none")

\* self.convert_to(to_currency=code, amount=amount) on the instance src,
\* the grouped query returning its entries in the given order
convert_to(known, store, src, code, amount, order) ==
    IF code \notin known
        THEN Unresolved(src, code, amount)
    ELSE LET g == BuildGraph(EmptyGraph, store, order)
             s == Search(g, code,
                         <<[current |-> src, path |-> <<src>>, factor |-> RatOne]>>, {})
         IN  IF g.error # "none"
                 THEN Returned(src, code, amount, FALSE, <<>>, RatZero, RatZero, g.error)
             ELSE IF s.found
                 THEN Returned(src, code, amount, TRUE, s.path, s.factor,
                               RatMul(Rat(amount, 1), s.factor), "none")
                 ELSE Returned(src, code, amount, FALSE, <<>>, RatZero,
                               Rat(amount, 1), "none")

\* A code that matches no stored currency
UnknownCode == NumCur + 1

Amounts == {1, 3}

\* A conversion reads the tables and writes nothing, so what it returns
\* after another conversion is what it returns in its place: the model
\* takes each conversion right after a mutation (or at the start)
Convert(src, code, amount) ==
    /\ src \in DOMAIN currencies
    /\ last.op # "convert"
    /\ \E order \in EnumerationOrders(rates) :
          last' = convert_to(DOMAIN currencies, rates, src, code, amount, order)
    /\ UNCHANGED <<currencies, handles, nextCurPk, rates, nextRatePk, calls, running>>

\* Factors a caller assigns in the conversion runs: 0, 0.6 (reciprocal
\* 1.6667) and 2.0 (reciprocal 0.5000)
ConvertFactors == {0, 6000, 20000}

NextConvert ==
    \/ \E a \in Currencies, b \in Currencies, d \in Dates, n \in ConvertFactors :
          calls < MaxConvertCalls /\ RateCreate(a, b, d, n)
    \/ \E row \in rates, a \in Currencies, b \in Currencies, d \in Dates :
          \E n \in ConvertFactors \cup {row.factor} :
             calls < MaxConvertCalls /\ OneField(row, a, b, d, n)
                /\ RateSave(row.pk, a, b, d, n)
    \/ \E row \in rates : calls < MaxConvertCalls /\ RateDelete(row.pk)
    \/ \E src \in Currencies, code \in Currencies \cup {UnknownCode}, amount \in Amounts :
          Convert(src, code, amount)

SpecConvert == InitRate /\ [][NextConvert]_vars

(***************************************************************************)
(* The conversion graph of the data model: one edge X -> Y per ordered     *)
(* pair with at least one stored rate, carrying the factor of the row with *)
(* the latest date.                                                        *)
(***************************************************************************)
IsConvert(call) == call.op = "convert"

RECURSIVE ReachFrom(_, _)
ReachFrom(store, S) ==
    LET T == S \cup {y \in Currencies : \E x \in S : <<x, y>> \in StoredPairs(store)}
    IN  IF T = S THEN S ELSE ReachFrom(store, T)

DirectedPathExists(store, src, tgt) == tgt \in ReachFrom(store, {src})

\* The number of edges of a shortest directed path, -1 when there is none
RECURSIVE DistFrom(_, _, _, _)
DistFrom(store, S, tgt, k) ==
    LET T == S \cup {y \in Currencies : \E x \in S : <<x, y>> \in StoredPairs(store)}
    IN  IF tgt \in S THEN k
        ELSE IF T = S THEN -1
        ELSE DistFrom(store, T, tgt, k + 1)

IsDirectedPath(store, path) ==
    \A i \in 1..(Len(path) - 1) : <<path[i], path[i + 1]>> \in StoredPairs(store)

RECURSIVE LatestProduct(_, _)
LatestProduct(store, path) ==
    IF Len(path) < 2 THEN RatOne
    ELSE RatMul(FromUnits(LatestRow(store, path[1], path[2]).factor),
                LatestProduct(store, Tail(path)))

(***************************************************************************)
(* C4: whenever convert returns a path, it is a path of the conversion     *)
(* graph (one edge X -> Y per ordered pair with a rate record) with the    *)
(* minimum number of edges among all paths from source to target.          *)
(***************************************************************************)
C4_ShortestPath ==
    (IsConvert(last) /\ last.found) =>
        /\ IsDirectedPath(rates, last.path)
        /\ Len(last.path) - 1 = DistFrom(rates, {last.source}, last.target, 0)

(***************************************************************************)
(* C5: whenever convert returns a path [c0, ..., cn], the returned factor  *)
(* is the product of the latest stored factors of the ordered pairs        *)
(* (c_i, c_i+1), whatever the enumeration order, and the returned amount   *)
(* is amount * factor.                                                     *)
(***************************************************************************)
C5_LatestDirectedRate ==
    (IsConvert(last) /\ last.found) =>
        /\ IsDirectedPath(rates, last.path)
        /\ last.factor = LatestProduct(rates, last.path)
        /\ last.result = RatMul(Rat(last.amount, 1), last.factor)

(***************************************************************************)
(* C8: convert(X, X, amount) returns path [X], factor 1.0 and the amount   *)
(* unchanged, in every store state.                                        *)
(***************************************************************************)
C8_SelfConversion ==
    (IsConvert(last) /\ last.source = last.target) =>
        /\ last.error = "none"
        /\ last.found
        /\ last.path = <<last.source>>
        /\ last.factor = RatOne
        /\ last.result = Rat(last.amount, 1)

(***************************************************************************)
(* C9: for two known currencies, convert returns (none, none, amount),     *)
(* raising nothing, exactly when the conversion graph has no directed path *)
(* from source to target.                                                  *)
(***************************************************************************)
C9_Unreachable ==
    (IsConvert(last) /\ last.target \in DOMAIN currencies) =>
        ( (last.error = "none" /\ ~last.found /\ last.result = Rat(last.amount, 1))
          <=> ~DirectedPathExists(rates, last.source, last.target) )

UsesZeroEdge(store, path) ==
    \E i \in 1..(Len(path) - 1) :
        /\ <<path[i], path[i + 1]>> \in StoredPairs(store)
        /\ LatestRow(store, path[i], path[i + 1]).factor = 0

(***************************************************************************)
(* C11: with a rate of factor 0 stored, convert completes without error    *)
(* for every source and target, and the returned amount is 0 when the      *)
(* returned path goes over the zero-factor edge.                           *)
(***************************************************************************)
C11_ZeroFactorConversion ==
    (IsConvert(last) /\ \E r \in rates : r.factor = 0) =>
        /\ last.error = "none"
        /\ (last.found /\ UsesZeroEdge(rates, last.path)) => last.result = RatZero

IsRateWrite(call) == IsSave(call) /\ call.error # "IntegrityError"

(***************************************************************************)
(* C12: a create with factor 0, or an update of a stored rate's factor to  *)
(* 0, that the store accepts completes without error and leaves the        *)
(* (B, A, date) record stored with factor 0.                               *)
(***************************************************************************)
C12_ZeroReciprocal ==
    (IsRateWrite(last) /\ last.factor = 0) =>
        /\ last.error = "none"
        /\ ReverseRows(rates, last) # {}
        /\ \A r2 \in ReverseRows(rates, last) : r2.factor = 0

\* An update to 0 of a rate between two currencies whose reciprocal was
\* stored with another factor: the receiver wrote the reciprocal
C12_Witness ==
    /\ last.op = "rate_save" /\ last.error = "none" /\ last.factor = 0
    /\ last.from_currency # last.to_currency
    /\ last.writes = 2
    /\ \E r2 \in ReverseRows(rates, last) : r2.factor = 0

(***************************************************************************)
(* C15: after a delete of (A, B, date) neither (A, B, date) nor            *)
(* (B, A, date) is stored, the delete raised nothing whether or not the    *)
(* reciprocal existed, and the receiver chain ended after at most one      *)
(* more delete.                                                            *)
(***************************************************************************)
C15_DeletePropagates ==
    (last.op = "rate_delete") =>
        /\ last.error = "none"
        /\ RowsAt(rates, last.from_currency, last.to_currency, last.date) = {}
        /\ ReverseRows(rates, last) = {}
        /\ last.writes <= 2

\* A delete whose receiver found the reciprocal and deleted it, while
\* another rate stays stored
C15_Witness ==
    /\ last.op = "rate_delete" /\ last.error = "none" /\ last.writes = 2
    /\ last.from_currency # last.to_currency
    /\ ReverseRows(rates, last) = {}
    /\ rates # {}

RowKey(r) == <<r.from_currency, r.to_currency, r.date>>

(***************************************************************************)
(* C16: a save or delete of (A, B, date) and the receivers it triggers     *)
(* create, modify and delete no rate with a key other than (A, B, date)    *)
(* and (B, A, date), and no receiver writes the triggering record          *)
(* (A, B, date) itself.                                                    *)
(***************************************************************************)
C16_ReceiverFrame ==
    [][(calls' = calls + 1) =>
          LET K == RowKey(last')
              RK == ReverseKey(last')
          IN  /\ \A r \in rates :
                    (r.pk # last'.pk /\ RowKey(r) \notin {K, RK}) => r \in rates'
              /\ \A r \in rates' : RowKey(r) \notin {K, RK} => r \in rates
              /\ K \notin last'.touched]_vars

(***************************************************************************)
(* Currency.save and Currency.delete, call by call                         *)
(***************************************************************************)
OthersOf(db, pk) == DOMAIN db \ {pk}

(***************************************************************************)
(* C17: after Currency.save of a currency marked base, that currency is    *)
(* stored as base and every other stored currency is stored as non-base.   *)
(***************************************************************************)
C17_SaveAsBaseDemotes ==
    (last.op = "currency_save" /\ last.flag) =>
        /\ last.pk \in DOMAIN currencies
        /\ currencies[last.pk]
        /\ \A p \in OthersOf(currencies, last.pk) : ~currencies[p]

\* The second of three stored currencies saved as base
C17_Witness ==
    /\ last.op = "currency_save" /\ last.flag /\ last.pk = 2
    /\ Cardinality(DOMAIN currencies) = 3
    /\ currencies[2] /\ ~currencies[1]

(***************************************************************************)
(* C18: Currency.save of a currency not marked base stores it as base when *)
(* no other stored currency is base; when another stored currency is base  *)
(* it is stored as non-base; the is_base_currency of every other currency  *)
(* is left as it was.                                                      *)
(***************************************************************************)
C18_SaveAsNonBase ==
    [][(last'.op = "currency_save" /\ ~last'.flag) =>
          LET pk == last'.pk
              others == OthersOf(currencies, pk)
          IN  /\ currencies'[pk] = ~(\E p \in others : currencies[p])
              /\ \A p \in others : currencies'[p] = currencies[p]]_vars

\* A currency saved as non-base while another of three is the base
C18_Witness ==
    /\ last.op = "currency_save" /\ ~last.flag
    /\ Cardinality(DOMAIN currencies) = 3
    /\ ~currencies[last.pk]
    /\ \E p \in OthersOf(currencies, last.pk) : currencies[p]

(***************************************************************************)
(* C19: after Currency.delete of the stored base currency exactly one of   *)
(* the remaining currencies is base, if any remain; Currency.delete of a   *)
(* currency that is not the stored base leaves the is_base_currency of     *)
(* every remaining currency as it was.                                     *)
(***************************************************************************)
C19_DeleteReassignsBase ==
    [][(last'.op = "currency_delete") =>
          LET pk == last'.pk
              rest == OthersOf(currencies, pk)
          IN  /\ DOMAIN currencies' = rest
              /\ IF currencies[pk]
                    THEN rest # {} => Cardinality({p \in rest : currencies'[p]}) = 1
                    ELSE \A p \in rest : currencies'[p] = currencies[p]]_vars

(***************************************************************************)
(* The breadth-first search of Currency.convert_to, one iteration of its   *)
(* while loop per step.  The call runs in one thread; the graph and the    *)
(* lookup it built are its local variables.                                *)
(***************************************************************************)
MaxSearchCalls == 3  \* rate mutations per run of the search specification

\* Factors stored in the search runs: 0.6 and 0
SearchFactors == {6000, 0}

\* queue = deque([(self, [self], Decimal("1.0"))]); visited = set()
SearchStart(src, code, amount, g) ==
    [pc |-> "bfs", source |-> src, target |-> code, amount |-> amount, g |-> g,
     queue |-> <<[current |-> src, path |-> <<src>>, factor |-> RatOne]>>,
     visited |-> {}]

\* convert_to up to the while loop: the target resolved, the graph built
SearchBegin(src, code, amount) ==
    /\ running = NoThreads
    /\ last.op # "convert"
    /\ src \in DOMAIN currencies
    /\ \E order \in EnumerationOrders(rates) :
          LET g == BuildGraph(EmptyGraph, rates, order)
          IN  IF code \notin DOMAIN currencies
                  THEN /\ last' = Unresolved(src, code, amount)
                       /\ UNCHANGED running
              ELSE IF g.error # "none"
                  THEN /\ last' = Returned(src, code, amount, FALSE, <<>>, RatZero,
                                           RatZero, g.error)
                       /\ UNCHANGED running
              ELSE /\ running' = <<SearchStart(src, code, amount, g)>>
                   /\ UNCHANGED last
    /\ UNCHANGED <<currencies, handles, nextCurPk, rates, nextRatePk, calls>>

\* One iteration of `while queue:`, or the return after the loop
SearchStep ==
    /\ running # NoThreads
    /\ running[1].pc = "bfs"
    /\ LET th == running[1]
       IN  IF th.queue = <<>>
               THEN /\ last' = Returned(th.source, th.target, th.amount, FALSE, <<>>,
                                        RatZero, Rat(th.amount, 1), "none")
                    /\ running' = NoThreads
           ELSE LET p == PopLeft(th.queue)
                    e == p.entry
                IN  IF e.current = th.target
                        THEN /\ last' = Returned(th.source, th.target, th.amount, TRUE,
                                                 e.path, e.factor,
                                                 RatMul(Rat(th.amount, 1), e.factor),
                                                 "none")
                             /\ running' = NoThreads
                        ELSE /\ running' =
                                   <<[th EXCEPT
                                        !.queue = p.rest \o
                                                  Expand(th.g, e, th.g.graph[e.current],
                                                         th.visited \cup {e.current}),
                                        !.visited = @ \cup {e.current}]>>
                             /\ UNCHANGED last
    /\ UNCHANGED <<currencies, handles, nextCurPk, rates, nextRatePk, calls>>

NextSearch ==
    \/ \E a \in Currencies, b \in Currencies, d \in Dates, n \in SearchFactors :
          /\ calls < MaxSearchCalls /\ running = NoThreads /\ d = 1
          /\ RateCreate(a, b, d, n)
    \/ \E row \in rates :
          calls < MaxSearchCalls /\ running = NoThreads /\ RateDelete(row.pk)
    \/ \E src \in Currencies, code \in Currencies \cup {UnknownCode} :
          SearchBegin(src, code, 1)
    \/ SearchStep

\* The thread that runs the loop keeps running it
SpecSearch == InitRate /\ [][NextSearch]_vars /\ WF_vars(SearchStep)

(***************************************************************************)
(* C13: for every stored set of rates, with cycles and self-loops, and     *)
(* every source and target, the while loop of convert, once entered,       *)
(* returns: the target is dequeued or the queue empties.                   *)
(***************************************************************************)
C13_SearchTerminates == (running # NoThreads) ~> (running = NoThreads)

\* A search that emptied its queue on a graph with a self-loop and a cycle
\* through all three currencies' edges, the target out of reach
C13_Witness ==
    /\ running = NoThreads
    /\ IsConvert(last) /\ last.error = "none" /\ ~last.found
    /\ last.target \in DOMAIN currencies
    /\ \E r \in rates : r.from_currency = r.to_currency /\ r.from_currency = last.source
    /\ \E r \in rates : r.from_currency # r.to_currency /\ r.from_currency = last.source

(***************************************************************************)
(* Currency.save and Currency.delete in two threads.  Neither method opens *)
(* a transaction, so each of its queries is committed on its own and the   *)
(* queries of the two threads interleave.  Each thread loads its instance  *)
(* and then calls the method.                                              *)
(***************************************************************************)
Threads == {1, 2}

Idle == [pc |-> "idle"]

Thread(pc, op, pk, savepk, saveflag, err) ==
    [pc |-> pc, op |-> op, pk |-> pk, savepk |-> savepk, saveflag |-> saveflag,
     error |-> err]

\* instance = Currency.objects.get(pk=pk); instance.is_base_currency = b;
\* instance.save() is called
RaceBeginSave(t, pk, b) ==
    /\ running[t] = Idle
    /\ pk \in DOMAIN currencies
    /\ running' = [running EXCEPT ![t] = Thread("save_check", "save", pk, pk, b, "none")]
    /\ UNCHANGED <<currencies, handles, nextCurPk, rates, nextRatePk, calls, last>>

\* Currency.save, the if / elif: the update of the other rows, or the
\* exists() query that decides the flag
RaceSaveCheck(t) ==
    /\ running[t].pc = "save_check"
    /\ LET th == running[t]
       IN  IF th.saveflag
               THEN /\ currencies' = DemoteOthers(currencies, th.savepk)
                    /\ running' = [running EXCEPT ![t].pc = "save_write"]
               ELSE /\ running' = [running EXCEPT
                                      ![t].pc = "save_write",
                                      ![t].saveflag = ~OtherBaseExists(currencies, th.savepk)]
                    /\ UNCHANGED currencies
    /\ UNCHANGED <<handles, nextCurPk, rates, nextRatePk, calls, last>>

\* Currency.save, super().save(): an UPDATE, or an INSERT when the row is gone
RaceSaveWrite(t) ==
    /\ running[t].pc = "save_write"
    /\ LET th == running[t]
       IN  /\ currencies' = WriteRow(currencies, th.savepk, th.saveflag)
           /\ running' = [running EXCEPT
                             ![t].pc = IF th.op = "delete" THEN "del_row" ELSE "done"]
    /\ UNCHANGED <<handles, nextCurPk, rates, nextRatePk, calls, last>>

\* instance = Currency.objects.get(pk=pk); instance.delete() is called:
\* the test of the instance's is_base_currency
RaceBeginDelete(t, pk) ==
    /\ running[t] = Idle
    /\ pk \in DOMAIN currencies
    /\ running' = [running EXCEPT
                      ![t] = Thread(IF currencies[pk] THEN "del_exists" ELSE "del_row",
                                    "delete", pk, pk, TRUE, "none")]
    /\ UNCHANGED <<currencies, handles, nextCurPk, rates, nextRatePk, calls, last>>

\* Currency.delete: other_currencies.exists()
RaceDeleteExists(t) ==
    /\ running[t].pc = "del_exists"
    /\ running' = [running EXCEPT
                      ![t].pc = IF OthersOf(currencies, running[t].pk) # {}
                                   THEN "del_first" ELSE "del_row"]
    /\ UNCHANGED <<currencies, handles, nextCurPk, rates, nextRatePk, calls, last>>

\* Currency.delete: new_base_currency = other_currencies.first() and the
\* assignment of its flag; first() answers None when the rows are gone
RaceDeleteFirst(t) ==
    /\ running[t].pc = "del_first"
    /\ LET th == running[t]
       IN  IF OthersOf(currencies, th.pk) = {}
               THEN running' = [running EXCEPT ![t].pc = "done",
                                               ![t].error = "AttributeError"]
               ELSE running' = [running EXCEPT
                                   ![t].pc = "save_check",
                                   ![t].savepk = FirstOther(currencies, th.pk),
                                   ![t].saveflag = TRUE]
    /\ UNCHANGED <<currencies, handles, nextCurPk, rates, nextRatePk, calls, last>>

\* Currency.delete: super().delete()
RaceDeleteRow(t) ==
    /\ running[t].pc = "del_row"
    /\ currencies' = [p \in DOMAIN currencies \ {running[t].pk} |-> currencies[p]]
    /\ running' = [running EXCEPT ![t].pc = "done"]
    /\ UNCHANGED <<handles, nextCurPk, rates, nextRatePk, calls, last>>

\* Three currencies, the first the base, and two threads about to start
InitCurrencyRace ==
    /\ currencies = [p \in Currencies |-> p = 1]
    /\ handles = [p \in Currencies |-> p = 1]
    /\ nextCurPk = NumCur + 1
    /\ rates = {}
    /\ nextRatePk = 1
    /\ calls = 0
    /\ last = NoCall
    /\ running = [t \in Threads |-> Idle]

NextCurrencyRace ==
    \/ \E t \in Threads, pk \in Currencies, b \in BOOLEAN : RaceBeginSave(t, pk, b)
    \/ \E t \in Threads : RaceSaveCheck(t)
    \/ \E t \in Threads : RaceSaveWrite(t)
    \/ \E t \in Threads, pk \in Currencies : RaceBeginDelete(t, pk)
    \/ \E t \in Threads : RaceDeleteExists(t)
    \/ \E t \in Threads : RaceDeleteFirst(t)
    \/ \E t \in Threads : RaceDeleteRow(t)

SpecCurrencyRace == InitCurrencyRace /\ [][NextCurrencyRace]_vars

BothDone == \A t \in Threads : running[t].pc = "done"

(***************************************************************************)
(* C14: once two concurrent currency mutations have both completed, the    *)
(* store does not hold two base currencies, and does not hold currencies   *)
(* without a base.                                                         *)
(***************************************************************************)
C14_BaseInvariantConcurrent ==
    BothDone => (DOMAIN currencies # {} => BaseCount = 1)

(***************************************************************************)
(* Two threads saving the two directions of one pair.  The caller's save   *)
(* is committed on its own; the receiver's first existence check runs      *)
(* outside any transaction; update_or_create opens transaction.atomic,     *)
(* selects the row for update and writes it, and every nested receiver     *)
(* runs inside that transaction, which commits when the chain returns.     *)
(* The database is one with row locks and read-committed visibility: a     *)
(* thread reads the committed rows and its own uncommitted writes.         *)
(***************************************************************************)
\* Factors the two threads save: 0.5, 0.8 and 2.0
RaceFactors == {5000, 8000, 20000}

\* The rate each thread saves: thread 1 saves (1, 2, date 1), thread 2
\* saves (2, 1, date 1)
RaceKey(t) == IF t = 1 THEN <<1, 2, 1>> ELSE <<2, 1, 1>>

\* The uncommitted writes of a transaction: key -> factor
NoWrites == <<>>

\* The rows a thread reads: the committed rows under its own writes
View(store, buffer) ==
    {IF RowKey(r) \in DOMAIN buffer THEN [r EXCEPT !.factor = buffer[RowKey(r)]] ELSE r :
        r \in store}

\* The rows another thread's open transaction has selected for update
LockedByOthers(t) == UNION {DOMAIN running[u].buffer : u \in DOMAIN running \ {t}}

RateThread(pc, inst, depth, buffer, err) ==
    [pc |-> pc, inst |-> inst, depth |-> depth, buffer |-> buffer, error |-> err]

\* rate.factor = n; rate.save(): the UPDATE of the caller's row, which
\* waits for a lock another transaction holds on it
RateRaceSave(t, n) ==
    /\ running[t].pc = "start"
    /\ RaceKey(t) \notin LockedByOthers(t)
    /\ rates' = {IF RowKey(r) = RaceKey(t) THEN [r EXCEPT !.factor = n] ELSE r : r \in rates}
    /\ running' = [running EXCEPT
                      ![t] = RateThread("check",
                                        Instance(RaceKey(t)[1], RaceKey(t)[2], RaceKey(t)[3],
                                                 FromUnits(n)),
                                        1, NoWrites, "none")]
    /\ UNCHANGED <<currencies, handles, nextCurPk, nextRatePk, calls, last>>

\* The receiver's filter(...).exists().  When the reverse row is found the
\* chain returns, to the commit of the open transaction if there is one;
\* past MaxChain nested receivers the RecursionError rolls it back
RateRaceCheck(t) ==
    /\ running[t].pc = "check"
    /\ LET th == running[t]
       IN  IF th.depth > MaxChain
               THEN /\ running' = [running EXCEPT ![t].pc = "done",
                                                  ![t].buffer = NoWrites,
                                                  ![t].error = "RecursionError"]
                    /\ UNCHANGED rates
           ELSE IF ReverseExists(View(rates, th.buffer), th.inst)
               THEN /\ running' = [running EXCEPT
                                      ![t].pc = IF th.buffer = NoWrites THEN "done"
                                                                        ELSE "commit"]
                    /\ UNCHANGED rates
               ELSE /\ running' = [running EXCEPT ![t].pc = "upsert"]
                    /\ UNCHANGED rates
    /\ UNCHANGED <<currencies, handles, nextCurPk, nextRatePk, calls, last>>

\* The outermost transaction.atomic of the chain exits: COMMIT
RateRaceCommit(t) ==
    /\ running[t].pc = "commit"
    /\ rates' = View(rates, running[t].buffer)
    /\ running' = [running EXCEPT ![t].pc = "done", ![t].buffer = NoWrites]
    /\ UNCHANGED <<currencies, handles, nextCurPk, nextRatePk, calls, last>>

\* The receiver's update_or_create on the stored reverse row: select for
\* update (waiting for the row's lock), set the factor, save; the receiver
\* of the written row runs next
RateRaceUpsert(t) ==
    /\ running[t].pc = "upsert"
    /\ ReverseKey(running[t].inst) \notin LockedByOthers(t)
    /\ LET th == running[t]
           rf == ReverseFactor(th.inst.factor)
       IN  running' = [running EXCEPT
                          ![t].pc = "check",
                          ![t].buffer = Put(th.buffer, ReverseKey(th.inst), Quantize(rf)),
                          ![t].inst = Instance(th.inst.to_currency, th.inst.from_currency,
                                               th.inst.date, rf),
                          ![t].depth = th.depth + 1]
    /\ UNCHANGED <<currencies, handles, nextCurPk, rates, nextRatePk, calls, last>>

\* The store after create(from 1, to 2, date 1, factor 0.6): both
\* directions stored, and two threads that loaded one direction each
InitRateRace ==
    /\ currencies = [p \in Currencies |-> p = 1]
    /\ handles = [p \in Currencies |-> p = 1]
    /\ nextCurPk = NumCur + 1
    /\ rates = {Row(1, 1, 2, 1, 6000), Row(2, 2, 1, 1, 16667)}
    /\ nextRatePk = 3
    /\ calls = 0
    /\ last = NoCall
    /\ running = [t \in Threads |->
                     RateThread("start", Instance(RaceKey(t)[1], RaceKey(t)[2],
                                                  RaceKey(t)[3], RatZero),
                                0, NoWrites, "none")]

NextRateRace ==
    \/ \E t \in Threads, n \in RaceFactors : RateRaceSave(t, n)
    \/ \E t \in Threads : RateRaceCheck(t)
    \/ \E t \in Threads : RateRaceUpsert(t)
    \/ \E t \in Threads : RateRaceCommit(t)

SpecRateRace == InitRateRace /\ [][NextRateRace]_vars

(***************************************************************************)
(* C20: when a save of (A, B, date, f1) and a save of (B, A, date, f2)     *)
(* race, every execution ends, after a bounded number of receiver writes   *)
(* and without error, in a state with one (A, B, date) and one             *)
(* (B, A, date) record whose factors are reciprocal.                       *)
(***************************************************************************)
C20_RacingSavesConverge ==
    BothDone =>
        /\ \A t \in Threads : running[t].error = "none"
        /\ \A r \in rates :
              /\ Cardinality(ReverseRows(rates, r)) = 1
              /\ \A r2 \in ReverseRows(rates, r) :
                    IsRecipOf(r2.factor, r.factor) \/ IsRecipOf(r.factor, r2.factor)

(***************************************************************************)
(* One process whose call can be interrupted between any two statements.   *)
(* Every statement that reaches the database outside transaction.atomic is *)
(* committed when it returns; the writes of an open transaction.atomic     *)
(* block are lost with the process.  Model.delete collects the rows that   *)
(* cascade and deletes them, receivers included, in one transaction.       *)
(***************************************************************************)
\* The call the process is making, and the store it started from
Began(op, pk, flag, n) ==
    [op |-> op, pk |-> pk, flag |-> flag, factor |-> n,
     currencies |-> currencies, rates |-> rates]

\* instance = Currency.objects.get(pk=pk); instance.is_base_currency = b;
\* instance.save() is called
BeginCurrencySave(pk, b) ==
    /\ running[1] = Idle
    /\ pk \in DOMAIN currencies
    /\ running' = [running EXCEPT ![1] = Thread("save_check", "save", pk, pk, b, "none")]
    /\ last' = Began("currency_save", pk, b, 0)
    /\ UNCHANGED <<currencies, handles, nextCurPk, rates, nextRatePk, calls>>

\* instance = Currency.objects.get(pk=pk); instance.delete() is called:
\* the test of the instance's is_base_currency
BeginCurrencyDelete(pk) ==
    /\ running[1] = Idle
    /\ pk \in DOMAIN currencies
    /\ running' = [running EXCEPT
                      ![1] = Thread(IF currencies[pk] THEN "del_exists" ELSE "del_row",
                                    "delete", pk, pk, TRUE, "none")]
    /\ last' = Began("currency_delete", pk, currencies[pk], 0)
    /\ UNCHANGED <<currencies, handles, nextCurPk, rates, nextRatePk, calls>>

\* The rates that reference a currency: on_delete=CASCADE on both keys
References(store, pk) == {r \in store : r.from_currency = pk \/ r.to_currency = pk}

\* Currency.delete, super().delete(): the row and the rates that reference
\* it go in one transaction; the post_delete receivers of those rates find
\* their reverse rows already deleted
CascadeDeleteRow ==
    /\ running[1].pc = "del_row"
    /\ currencies' = [p \in DOMAIN currencies \ {running[1].pk} |-> currencies[p]]
    /\ rates' = rates \ References(rates, running[1].pk)
    /\ running' = [running EXCEPT ![1].pc = "done"]
    /\ UNCHANGED <<handles, nextCurPk, nextRatePk, calls, last>>

\* rate = ConversionRate.objects.get(from 1, to 2, date 1); rate.factor = n;
\* rate.save() is called
BeginRateSave(n) ==
    /\ running[1] = Idle
    /\ \E r \in rates : RowKey(r) = RaceKey(1)
    /\ \E r \in rates : RowKey(r) = ReverseKey(Instance(1, 2, 1, RatZero))
    /\ running' = [running EXCEPT
                      ![1] = RateThread("start", Instance(1, 2, 1, RatZero), 0,
                                        NoWrites, "none")]
    /\ last' = Began("rate_save", 0, FALSE, n)
    /\ UNCHANGED <<currencies, handles, nextCurPk, rates, nextRatePk, calls>>

\* rate = ConversionRate.objects.get(from 1, to 2, date 1); rate.delete() is
\* called: Collector.delete opens its transaction
BeginRateDelete ==
    /\ running[1] = Idle
    /\ \E r \in rates : RowKey(r) = RaceKey(1)
    /\ running' = [running EXCEPT
                      ![1] = RateThread("delete", Instance(1, 2, 1, RatZero), 0,
                                        NoWrites, "none")]
    /\ last' = Began("rate_delete", 0, FALSE, 0)
    /\ UNCHANGED <<currencies, handles, nextCurPk, rates, nextRatePk, calls>>

\* The store after rate.delete() with its receivers
RateDeleted(store, key) ==
    PostDelete({r \in store : RowKey(r) # key},
               Instance(key[1], key[2], key[3], RatZero), 1).rates

\* Collector.delete: the DELETE and the post_delete receivers have run inside
\* the transaction, which commits
RateDeleteCommit ==
    /\ running[1].pc = "delete"
    /\ rates' = RateDeleted(rates, RaceKey(1))
    /\ running' = [running EXCEPT ![1].pc = "done"]
    /\ UNCHANGED <<currencies, handles, nextCurPk, nextRatePk, calls, last>>

\* The process dies, or the database fails it, where it stands: what it
\* committed stays, its open transaction is rolled back
Interrupt ==
    /\ running[1].pc \notin {"idle", "done", "crashed"}
    /\ running' = [running EXCEPT ![1].pc = "crashed"]
    /\ UNCHANGED <<currencies, handles, nextCurPk, rates, nextRatePk, calls, last>>

\* The next call is made, by a new process after a crash
NextCall ==
    /\ running[1].pc \in {"done", "crashed"}
    /\ running' = [running EXCEPT ![1] = Idle]
    /\ UNCHANGED <<currencies, handles, nextCurPk, rates, nextRatePk, calls, last>>

\* Three currencies, the first the base, both directions of one rate, and
\* one process
InitInterrupt ==
    /\ currencies = [p \in Currencies |-> p = 1]
    /\ handles = [p \in Currencies |-> p = 1]
    /\ nextCurPk = NumCur + 1
    /\ rates = {Row(1, 1, 2, 1, 6000), Row(2, 2, 1, 1, 16667)}
    /\ nextRatePk = 3
    /\ calls = 0
    /\ last = NoCall
    /\ running = [t \in {1} |-> Idle]

NextInterrupt ==
    \/ \E pk \in Currencies, b \in BOOLEAN : BeginCurrencySave(pk, b)
    \/ RaceSaveCheck(1)
    \/ RaceSaveWrite(1)
    \/ \E pk \in Currencies : BeginCurrencyDelete(pk)
    \/ RaceDeleteExists(1)
    \/ RaceDeleteFirst(1)
    \/ CascadeDeleteRow
    \/ \E n \in RaceFactors : BeginRateSave(n)
    \/ running[1].pc = "start" /\ RateRaceSave(1, last.factor)
    \/ RateRaceCheck(1)
    \/ RateRaceUpsert(1)
    \/ RateRaceCommit(1)
    \/ BeginRateDelete
    \/ RateDeleteCommit
    \/ Interrupt
    \/ NextCall

SpecInterrupt == InitInterrupt /\ [][NextInterrupt]_vars

\* The store a call leaves when it runs to its end
Completed(call) ==
    IF call.op = "currency_save"
        THEN [currencies |-> CurrencySaveDb(call.currencies, call.pk, call.flag),
              rates |-> call.rates]
    ELSE IF call.op = "currency_delete"
        THEN [currencies |-> CurrencyDeleteDb(call.currencies, call.pk, call.flag),
              rates |-> call.rates \ References(call.rates, call.pk)]
    ELSE IF call.op = "rate_save"
        THEN [currencies |-> call.currencies,
              rates |-> Receivers({IF RowKey(r) = RaceKey(1)
                                      THEN [r EXCEPT !.factor = call.factor] ELSE r :
                                      r \in call.rates},
                                  nextRatePk,
                                  Instance(1, 2, 1, FromUnits(call.factor))).rates]
    ELSE [currencies |-> call.currencies, rates |-> RateDeleted(call.rates, RaceKey(1))]

(***************************************************************************)
(* C21: a currency save, currency delete, rate save or rate delete that is *)
(* interrupted leaves the store either as it was before the call or as the *)
(* complete call leaves it.                                                *)
(***************************************************************************)
C21_AllOrNothing ==
    running[1].pc = "crashed" =>
        LET now == [currencies |-> currencies, rates |-> rates]
        IN  \/ now = [currencies |-> last.currencies, rates |-> last.rates]
            \/ now = Completed(last)

\* A call that runs to its end leaves the store the complete call leaves
RunsToCompletion ==
    running[1].pc = "done" =>
        [currencies |-> currencies, rates |-> rates] = Completed(last)

(***************************************************************************)
(* The paths the breadth-first search carries.                             *)
(***************************************************************************)
\* neighbor in graph[current]
IsEdge(g, a, b) == \E k \in 1..Len(g.graph[a]) : g.graph[a][k] = b

\* A path from src to cur that repeats no currency and follows the edges
\* of the graph
IsSimplePath(g, src, cur, path) ==
    /\ path # <<>>
    /\ path[1] = src
    /\ path[Len(path)] = cur
    /\ \A i, j \in 1..Len(path) : i # j => path[i] # path[j]
    /\ \A i \in 1..(Len(path) - 1) : IsEdge(g, path[i], path[i + 1])

(***************************************************************************)
(* C22: in every state of the search, the path of every queued entry       *)
(* starts at the source, ends at the entry's current currency, holds no    *)
(* currency twice and follows edges of the built graph; and the path the   *)
(* search returns is such a path from the source to the target.            *)
(***************************************************************************)
C22_WellFormedPath ==
    /\ [](running # NoThreads =>
            \A i \in 1..Len(running[1].queue) :
                IsSimplePath(running[1].g, running[1].source,
                             running[1].queue[i].current, running[1].queue[i].path))
    /\ [][(running # NoThreads /\ running' = NoThreads /\ last'.found) =>
            IsSimplePath(running[1].g, last'.source, last'.target, last'.path)]_vars

\* A search that has skipped a visited neighbour and queued a path through
\* all three currencies
C22_Witness ==
    /\ running # NoThreads
    /\ running[1].visited # {}
    /\ \E i \in 1..Len(running[1].queue) :
          /\ Len(running[1].queue[i].path) = NumCur
          /\ \E v \in running[1].visited : IsEdge(running[1].g, running[1].queue[i].path[2], v)

====
